---- MODULE Spec2Model ----
(***************************************************************************)
(* AdminDataGrid (src/src/app/test-grid/page.tsx): the ScoreCard grid, its *)
(* local-storage persistence, per-row comments, sub-grids, the status      *)
(* picker and the Excel import.                                            *)
(*                                                                         *)
(* JavaScript strings are sequences of one-character strings, so that      *)
(* trim, toLowerCase and replace(/\s+/g, '_') are computed, not assumed.   *)
(* A JavaScript value held in a cell is a record [t, s, n]: t is its type  *)
(* ("str", "num", "undefined"), s its characters, n its number.            *)
(***************************************************************************)
EXTENDS Integers, Sequences, FiniteSets, TLC

(***************************************************************************)
(* String literals of the source.                                          *)
(***************************************************************************)
S_id == <<"i", "d">>
S_name == <<"n", "a", "m", "e">>
S_retail_price == <<"r", "e", "t", "a", "i", "l", "_", "p", "r", "i", "c", "e">>
S_comments == <<"c", "o", "m", "m", "e", "n", "t", "s">>
S_delete == <<"d", "e", "l", "e", "t", "e">>
S_rowIndex == <<"_", "r", "o", "w", "I", "n", "d", "e", "x">>
S_RetailerName == <<"R", "e", "t", "a", "i", "l", "e", "r", " ", "N", "a", "m", "e">>
S_CMG == <<"C", "M", "G">>
S_note == <<"n", "o", "t", "e">>
S_Anonymous == <<"A", "n", "o", "n", "y", "m", "o", "u", "s">>

UpperCaseLetters == <<"A", "B", "C", "D", "E", "F", "G", "H", "I", "J", "K", "L", "M",
                      "N", "O", "P", "Q", "R", "S", "T", "U", "V", "W", "X", "Y", "Z">>
LowerCaseLetters == <<"a", "b", "c", "d", "e", "f", "g", "h", "i", "j", "k", "l", "m",
                      "n", "o", "p", "q", "r", "s", "t", "u", "v", "w", "x", "y", "z">>
DecimalDigits == <<"0", "1", "2", "3", "4", "5", "6", "7", "8", "9">>

(***************************************************************************)
(* String.prototype methods used by the source.                            *)
(***************************************************************************)
WhiteSpace == {" ", "\t", "\n"}

RECURSIVE TrimStart(_)
TrimStart(s) ==
  IF s = << >> \/ s[1] \notin WhiteSpace THEN s ELSE TrimStart(Tail(s))

RECURSIVE TrimEnd(_)
TrimEnd(s) ==
  IF s = << >> \/ s[Len(s)] \notin WhiteSpace THEN s
  ELSE TrimEnd(SubSeq(s, 1, Len(s) - 1))

Trim(s) == TrimEnd(TrimStart(s))

LowerChar(c) ==
  IF \E i \in 1..Len(UpperCaseLetters) : UpperCaseLetters[i] = c
  THEN LowerCaseLetters[CHOOSE i \in 1..Len(UpperCaseLetters) : UpperCaseLetters[i] = c]
  ELSE c

UpperChar(c) ==
  IF \E i \in 1..Len(LowerCaseLetters) : LowerCaseLetters[i] = c
  THEN UpperCaseLetters[CHOOSE i \in 1..Len(LowerCaseLetters) : LowerCaseLetters[i] = c]
  ELSE c

ToLowerCase(s) == [i \in 1..Len(s) |-> LowerChar(s[i])]

\* s.replace(/\s+/g, '_'): every maximal run of white space becomes one '_'
RECURSIVE ReplaceSpaceRuns(_)
ReplaceSpaceRuns(s) ==
  IF s = << >> THEN << >>
  ELSE IF s[1] \in WhiteSpace THEN <<"_">> \o ReplaceSpaceRuns(TrimStart(s))
  ELSE <<s[1]>> \o ReplaceSpaceRuns(Tail(s))

\* key.charAt(0).toUpperCase() + key.slice(1)
Capitalize(s) == IF s = << >> THEN << >> ELSE <<UpperChar(s[1])>> \o Tail(s)

(***************************************************************************)
(* JavaScript values held in cells.                                        *)
(***************************************************************************)
Str(s) == [t |-> "str", s |-> s, n |-> 0]
Num(n) == [t |-> "num", s |-> << >>, n |-> n]
Undefined == [t |-> "undefined", s |-> << >>, n |-> 0]

\* JavaScript truthiness: '' , 0 and undefined are falsy
Truthy(v) ==
  CASE v.t = "str" -> v.s # << >>
    [] v.t = "num" -> v.n # 0
    [] OTHER -> FALSE

\* String(n) of a non-negative integer
RECURSIVE DigitsOf(_)
DigitsOf(n) ==
  IF n < 10 THEN <<DecimalDigits[n + 1]>>
  ELSE DigitsOf(n \div 10) \o <<DecimalDigits[(n % 10) + 1]>>

\* String(v)
StringOf(v) ==
  CASE v.t = "str" -> v.s
    [] v.t = "num" -> DigitsOf(v.n)
    [] OTHER -> <<"u", "n", "d", "e", "f", "i", "n", "e", "d">>

\* v ?? ''
OrEmpty(v) == IF v.t = "undefined" THEN Str(<< >>) ELSE v

\* row[i] of a JavaScript array, i counted from 0
At(row, i) == IF i + 1 \in 1..Len(row) THEN row[i + 1] ELSE Undefined

\* { ...row, [key]: value }
WithKey(row, key, value) ==
  [k \in (DOMAIN row) \cup {key} |-> IF k = key THEN value ELSE row[k]]

\* delete row[key]
WithoutKey(row, key) == [k \in (DOMAIN row) \ {key} |-> row[k]]

EmptyObject == [k \in {} |-> Str(<< >>)]

\* row[key], undefined when the row has no such property
Prop(row, key) == IF key \in DOMAIN row THEN row[key] ELSE Undefined

\* the elements of a sequence, without repetition, in order of first occurrence
RECURSIVE Dedup(_)
Dedup(q) ==
  IF q = << >> THEN << >>
  ELSE LET front == Dedup(SubSeq(q, 1, Len(q) - 1))
           last  == q[Len(q)]
       IN IF \E i \in 1..Len(front) : front[i] = last THEN front ELSE Append(front, last)

RECURSIVE Flatten(_)
Flatten(qq) == IF qq = << >> THEN << >> ELSE Head(qq) \o Flatten(Tail(qq))

Range(q) == {q[i] : i \in 1..Len(q)}

(***************************************************************************)
(* handleImportExcel, reader.onload: the sheet as sheet_to_json returns it *)
(* with { header: 1, defval: '' }, a sequence of rows of cells.            *)
(***************************************************************************)
HeaderScanLimit == 10

\* cell && String(cell).trim() !== ''
NonBlank(cell) == Truthy(cell) /\ Trim(StringOf(cell)) # << >>

\* rows2D.map(row => row[0]).filter(cell => cell && String(cell).trim() !== '')
FirstCol(rows2D) ==
  SelectSeq([i \in 1..Len(rows2D) |-> At(rows2D[i], 0)], LAMBDA cell : NonBlank(cell))

\* rows2D.every(row => row.slice(2).every(cell => !cell || String(cell).trim() === ''))
MostlyEmptyRest(rows2D) ==
  \A i \in 1..Len(rows2D) : \A j \in 3..Len(rows2D[i]) : ~NonBlank(rows2D[i][j])

\* the detection with 'at least 3' for 'more than 3'
IsVerticalFrom3(rows2D) ==
  Cardinality(Range(FirstCol(rows2D))) >= 3 /\ MostlyEmptyRest(rows2D)

IsVertical(rows2D) ==
  Cardinality(Range(FirstCol(rows2D))) > 3 /\ MostlyEmptyRest(rows2D)

\* the loop that groups the rows into blocks; i is the next row, counted from 1
RECURSIVE VerticalBlocks(_, _, _, _, _)
VerticalBlocks(rows2D, i, blocks, currentBlock, seenFields) ==
  IF i > Len(rows2D)
  THEN IF Len(currentBlock) > 0 THEN Append(blocks, currentBlock) ELSE blocks
  ELSE LET row    == rows2D[i]
           key    == At(row, 0)
           flush  == ~Truthy(key) \/ key \in seenFields
           blocks1 == IF flush /\ Len(currentBlock) > 0
                      THEN Append(blocks, currentBlock) ELSE blocks
           block1 == IF flush THEN << >> ELSE currentBlock
           seen1  == IF flush THEN {} ELSE seenFields
       IN IF Truthy(key)
          THEN VerticalBlocks(rows2D, i + 1, blocks1, Append(block1, row), seen1 \cup {key})
          ELSE VerticalBlocks(rows2D, i + 1, blocks1, block1, seen1)

\* a column as the import builds it
ImportedColumn(key, name) ==
  [key |-> key, name |-> name, editable |-> TRUE, renderEditCell |-> TRUE]

\* Object.values(row).some(v => v && String(v).trim() !== '')
SomeValueNonBlank(obj) == \E k \in DOMAIN obj : NonBlank(obj[k])

\* block.forEach(row => { obj[row[0]] = row[1] ?? '' })
RECURSIVE BlockObject(_, _)
BlockObject(block, obj) ==
  IF block = << >> THEN obj
  ELSE BlockObject(Tail(block),
                   WithKey(obj, StringOf(At(Head(block), 0)), OrEmpty(At(Head(block), 1))))

\* allKeys.forEach(key => { if (!(key in obj)) obj[key] = '' })
RECURSIVE FillMissing(_, _)
FillMissing(keys, obj) ==
  IF keys = << >> THEN obj
  ELSE FillMissing(Tail(keys),
                   IF StringOf(Head(keys)) \in DOMAIN obj THEN obj
                   ELSE WithKey(obj, StringOf(Head(keys)), Str(<< >>)))

ImportVertical(rows2D) ==
  LET blocks  == VerticalBlocks(rows2D, 1, << >>, << >>, {})
      allKeys == Dedup(Flatten([b \in 1..Len(blocks) |->
                         [r \in 1..Len(blocks[b]) |-> At(blocks[b][r], 0)]]))
      \* (key || `__EMPTY_${i}`).charAt(0): a number has no charAt
      threw   == \E i \in 1..Len(allKeys) : allKeys[i].t # "str"
      importedColumns ==
        [i \in 1..Len(allKeys) |->
           ImportedColumn(allKeys[i].s, Capitalize(allKeys[i].s))]
      objects ==
        [b \in 1..Len(blocks) |->
           WithKey(FillMissing(allKeys, BlockObject(blocks[b], EmptyObject)),
                   S_rowIndex, Num(b - 1))]
      formattedRows == SelectSeq(objects, LAMBDA obj : SomeValueNonBlank(obj))
  IN IF threw
     THEN [threw |-> TRUE, isVertical |-> TRUE, headerRowIndex |-> 0,
           columns |-> << >>, rows |-> << >>]
     ELSE [threw |-> FALSE, isVertical |-> TRUE, headerRowIndex |-> 0,
           columns |-> importedColumns, rows |-> formattedRows]

\* Score: number of non-empty, unique values of the row
RowScore(row) == Cardinality(Range(SelectSeq(row, LAMBDA cell : NonBlank(cell))))

\* for (let i = 0; i < Math.min(10, rows2D.length); i++) ..., i counted from 0
RECURSIVE HeaderScan(_, _, _, _)
HeaderScan(rows2D, i, headerRowIndex, maxScore) ==
  IF i >= HeaderScanLimit \/ i >= Len(rows2D) THEN headerRowIndex
  ELSE LET score == RowScore(rows2D[i + 1])
       IN IF score > maxScore
          THEN HeaderScan(rows2D, i + 1, i, score)
          ELSE HeaderScan(rows2D, i + 1, headerRowIndex, maxScore)

\* (key || '').trim().toLowerCase().replace(/\s+/g, '_'), for a string or falsy key
NormalizeKey(key) ==
  ReplaceSpaceRuns(ToLowerCase(Trim(IF Truthy(key) THEN key.s ELSE << >>)))

\* normHeaders.forEach((header, i) => { obj[header] = row[i] ?? '' }), i counted from 1
RECURSIVE HeaderObject(_, _, _, _)
HeaderObject(normHeaders, row, i, obj) ==
  IF i > Len(normHeaders) THEN obj
  ELSE HeaderObject(normHeaders, row, i + 1,
                    WithKey(obj, normHeaders[i], OrEmpty(At(row, i - 1))))

ImportHorizontal(rows2D) ==
  LET headerRowIndex == HeaderScan(rows2D, 0, 0, -1)
      headers  == rows2D[headerRowIndex + 1]
      dataRows == SelectSeq(SubSeq(rows2D, headerRowIndex + 2, Len(rows2D)),
                            LAMBDA row : \E j \in 1..Len(row) : NonBlank(row[j]))
      \* (key || '').trim(): a truthy number has no trim
      threw    == \E j \in 1..Len(headers) : Truthy(headers[j]) /\ headers[j].t # "str"
      normHeaders == [j \in 1..Len(headers) |-> NormalizeKey(headers[j])]
      objects ==
        [r \in 1..Len(dataRows) |->
           WithKey(HeaderObject(normHeaders, dataRows[r], 1, EmptyObject),
                   S_rowIndex, Num(r - 1))]
      formattedRows == SelectSeq(objects, LAMBDA obj : SomeValueNonBlank(obj))
      importedColumns ==
        [j \in 1..Len(normHeaders) |->
           ImportedColumn(normHeaders[j], Capitalize(normHeaders[j]))]
  IN IF threw
     THEN [threw |-> TRUE, isVertical |-> FALSE, headerRowIndex |-> headerRowIndex,
           columns |-> << >>, rows |-> << >>]
     ELSE [threw |-> FALSE, isVertical |-> FALSE, headerRowIndex |-> headerRowIndex,
           columns |-> importedColumns, rows |-> formattedRows]

\* what reader.onload computes before it calls updateCurrentData
ImportSheet(rows2D) ==
  IF IsVertical(rows2D) THEN ImportVertical(rows2D) ELSE ImportHorizontal(rows2D)

(***************************************************************************)
(* Bounds of the model and the inputs the operations draw from.            *)
(***************************************************************************)
MaxScorecards == 2
MaxClock == 2
MaxRows == 3
MaxColumns == 10
MaxOps == 5
MaxSubGridColumns == 2
MaxSubGridRows == 2

S_scorecard_ == <<"s", "c", "o", "r", "e", "c", "a", "r", "d", "_">>
S_Authorized == <<"A", "u", "t", "h", "o", "r", "i", "z", "e", "d">>
S_w == <<"w">>

ScoreCardNameInputs == {<<"P", " ">>, <<" ">>}
ColumnNameInputs == {<<" ">>, S_RetailerName, <<" ", "Q", " ", " ", "1">>, S_name}
\* the characters of the model in the order of their UTF-16 code units
CharOrder == <<" ", "0", "1", "2", "3", "4", "5", "6", "7", "8", "9">>
               \o UpperCaseLetters \o <<"_">> \o LowerCaseLetters

(***************************************************************************)
(* The state of the component and of the browser around it.                *)
(***************************************************************************)
VARIABLES
  phase,              \* "unmounted", "mounted", or "crashed" (a render threw)
  userRole,           \* the userRole prop
  storage,            \* localStorage: the items 'scorecards' and 'scorecardComments'
  now,                \* Date.now()
  scorecards,         \* useState: ScoreCard[]
  selectedCategory,   \* useState: a string, or undefined
  sortColumns,        \* useState: SortColumn[]
  showAddColModal, newColName, colError,
  comments,           \* useState: scorecard id -> row id -> comments
  openRetailerDrawer, \* useState: a row id, or null (0)
  commentInput, editCommentIdx, editCommentText,
  editedComment,      \* history: the comment Edit was clicked on, with its scorecard and row
  statusPicker,       \* useState: the open status picker, or null
  subGrids,           \* useState: parent id -> sub-grid
  reader,             \* the FileReader whose onload has not run yet
  thrown,             \* the last operation ended in an uncaught TypeError
  imported,           \* the locals of reader.onload when it was the last operation
  ops                 \* the number of operations since the page was first opened

vars == <<phase, userRole, storage, now, scorecards, selectedCategory, sortColumns,
          showAddColModal, newColName, colError, comments, openRetailerDrawer,
          commentInput, editCommentIdx, editCommentText, editedComment, statusPicker,
          subGrids, reader, thrown, imported, ops>>

modalVars  == <<showAddColModal, newColName, colError>>
drawerVars == <<openRetailerDrawer, commentInput, editCommentIdx, editCommentText,
                editedComment>>

Null == 0     \* null, where the other values are positive numbers
InitialSubGrids == << >>   \* useState({}) of subGrids
NoIndex == -1 \* null, where the other values are indexes from 0
NoEdited == [sc |-> << >>, rowId |-> 0, comment |-> << >>]
\* row is the row of the click: history, the program keeps rowIdx only
NoPicker == [open |-> FALSE, rowIdx |-> 0, colIdx |-> 0, value |-> Undefined,
             columnKey |-> << >>, row |-> EmptyObject]
NoReader == [busy |-> FALSE, selectedCategory |-> Undefined, rows2D |-> << >>]
NoImport == [ran |-> FALSE, rows2D |-> << >>, selectedCategory |-> Undefined,
             threw |-> FALSE, isVertical |-> FALSE, headerRowIndex |-> 0,
             columns |-> << >>, rows |-> << >>]

(***************************************************************************)
(* localStorage items.  An item is absent, or holds a text: garbage (not   *)
(* JSON), or the JSON of null, of an object or of an array.                *)
(***************************************************************************)
Item(kind, value) == [item |-> kind, value |-> value]

\* JSON.stringify of a scorecard: the function-valued properties of a column
\* and the properties of a row whose value is undefined are left out
StringifyScoreCard(sc) ==
  [id |-> sc.id, name |-> sc.name,
   columns |-> [j \in 1..Len(sc.columns) |->
                  [key |-> sc.columns[j].key, name |-> sc.columns[j].name,
                   editable |-> sc.columns[j].editable]],
   rows |-> [r \in 1..Len(sc.rows) |->
               [k \in {x \in DOMAIN sc.rows[r] : sc.rows[r][x].t # "undefined"} |->
                  sc.rows[r][k]]]]

\* JSON.stringify(scorecards)
StringifyScorecards(list) ==
  Item("array", [i \in 1..Len(list) |-> StringifyScoreCard(list[i])])

ParseScoreCard(j) ==
  [id |-> j.id, name |-> j.name,
   columns |-> [c \in 1..Len(j.columns) |->
                  [key |-> j.columns[c].key, name |-> j.columns[c].name,
                   editable |-> j.columns[c].editable, renderEditCell |-> FALSE]],
   rows |-> j.rows]

\* stored ? JSON.parse(stored) : [], with catch { return [] }
LoadScoreCardsFromStorage(stored) ==
  CASE stored.item = "absent"  -> << >>
    [] stored.item = "garbage" -> << >>
    [] stored.item = "array"   ->
         [i \in 1..Len(stored.value) |-> ParseScoreCard(stored.value[i])]
    [] OTHER -> stored

\* scorecards.map(...) of the sidebar throws unless what was loaded is an array
RenderThrows(stored) == stored.item \notin {"absent", "garbage", "array"}

\* JSON.parse(localStorage.getItem('scorecardComments') || '{}'), catch { return {} }
LoadScorecardComments(stored) ==
  IF stored.item = "object" THEN stored.value ELSE << >>

\* JSON.stringify(newComments): a map from scorecard id to a map from row id to a list
StringifyComments(c) ==
  Item("object",
       [sc \in DOMAIN c |->
          [rowId \in DOMAIN c[sc] |->
             [i \in 1..Len(c[sc][rowId]) |->
                [text |-> c[sc][rowId][i].text, timestamp |-> c[sc][rowId][i].timestamp,
                 username |-> c[sc][rowId][i].username]]]])

\* a handler that forgets saveScorecardComments
CommentsNotSaved(store, newComments) == store

\* localStorage.setItem('scorecardComments', JSON.stringify(newComments))
SaveScorecardComments(store, newComments) ==
  [store EXCEPT !.scorecardComments = StringifyComments(newComments)]

\* a save effect that does not run
ScorecardsNotSaved(store, list) == store

\* useEffect(() => saveScoreCardsToStorage(scorecards), [scorecards])
SaveScoreCardsToStorage(store, list) ==
  [store EXCEPT !.scorecards = StringifyScorecards(list)]

(***************************************************************************)
(* Helpers of the component.                                               *)
(***************************************************************************)
\* s.startsWith(prefix)
StartsWith(s, prefix) ==
  Len(s) >= Len(prefix) /\ SubSeq(s, 1, Len(prefix)) = prefix

\* columns.findIndex(col => col.key === key), counted from 0, -1 when there is none
FindKeyIndex(keys, key) ==
  IF \E i \in 1..Len(keys) : keys[i] = key
  THEN (CHOOSE i \in 1..Len(keys) : keys[i] = key /\ \A j \in 1..(i - 1) : keys[j] # key) - 1
  ELSE -1

KeysOf(columns) == [j \in 1..Len(columns) |-> columns[j].key]

\* getCurrentData(): the position in list of the selected scorecard, 0 for null
CurrentIndex(list, selected) ==
  IF selected.t = "str" /\ StartsWith(selected.s, S_scorecard_)
     /\ \E i \in 1..Len(list) : list[i].id = selected.s
  THEN CHOOSE i \in 1..Len(list) :
         list[i].id = selected.s /\ \A j \in 1..(i - 1) : list[j].id # selected.s
  ELSE 0

\* updates.columns.map(col => col.key === 'comments' ? { ...col, name: '' } : col)
BlankCommentsName(columns) ==
  [j \in 1..Len(columns) |->
     IF columns[j].key = S_comments THEN [columns[j] EXCEPT !.name = << >>]
     ELSE columns[j]]

\* updateScoreCard(scorecardId, { columns, rows })
UpdateScoreCard(list, scorecardId, updates) ==
  [i \in 1..Len(list) |->
     IF list[i].id = scorecardId
     THEN [list[i] EXCEPT
             !.name    = IF updates.hasName THEN updates.name ELSE @,
             !.columns = IF updates.hasColumns THEN updates.columns ELSE @,
             !.rows    = IF updates.hasRows THEN updates.rows ELSE @]
     ELSE list[i]]

ColumnsAndRows(columns, rows) ==
  [hasName |-> FALSE, name |-> << >>, hasColumns |-> TRUE, columns |-> columns,
   hasRows |-> TRUE, rows |-> rows]
OnlyRows(rows) ==
  [hasName |-> FALSE, name |-> << >>, hasColumns |-> FALSE, columns |-> << >>,
   hasRows |-> TRUE, rows |-> rows]
OnlyColumns(columns) ==
  [hasName |-> FALSE, name |-> << >>, hasColumns |-> TRUE, columns |-> columns,
   hasRows |-> FALSE, rows |-> << >>]
OnlyName(name) ==
  [hasName |-> TRUE, name |-> name, hasColumns |-> FALSE, columns |-> << >>,
   hasRows |-> FALSE, rows |-> << >>]

\* selectedCategory.startsWith('scorecard_') of updateCurrentData: undefined has none
UpdateCurrentDataThrows(selected) == selected.t # "str"

\* updateCurrentData(updates) with a selectedCategory that is a string
UpdateCurrentData(list, selected, updates) ==
  LET blanked == IF updates.hasColumns
                 THEN [updates EXCEPT !.columns = BlankCommentsName(@)]
                 ELSE updates
  IN IF StartsWith(selected.s, S_scorecard_)
     THEN UpdateScoreCard(list, selected.s, blanked)
     ELSE list

\* the effect on [userRole, selectedCategory]: it recomputes editable of every column
RoleEffectColumns(columns, role) ==
  [j \in 1..Len(columns) |->
     LET editable == role = "ADMIN" /\ columns[j].key # S_id /\ columns[j].key # S_delete
     IN [columns[j] EXCEPT !.editable = editable,
                            !.renderEditCell = @ \/ editable]]

RoleEffect(list, selected, role) ==
  LET i == CurrentIndex(list, selected)
  IN IF i = 0 THEN list
     ELSE UpdateCurrentData(list, selected,
                            OnlyColumns(RoleEffectColumns(list[i].columns, role)))

\* a > b of two strings: by code units
RECURSIVE StringGreater(_, _)
StringGreater(a, b) ==
  IF a = << >> THEN FALSE
  ELSE IF b = << >> THEN TRUE
  ELSE IF a[1] = b[1] THEN StringGreater(Tail(a), Tail(b))
  ELSE FindKeyIndex(CharOrder, a[1]) > FindKeyIndex(CharOrder, b[1])

\* the comparator of getSortedRows
CompareRows(a, b, columnKey, direction) ==
  LET aValue == Prop(a, columnKey)
      bValue == Prop(b, columnKey)
      greater == CASE aValue.t = "str" /\ bValue.t = "str" -> StringGreater(aValue.s, bValue.s)
                   [] aValue.t = "num" /\ bValue.t = "num" -> aValue.n > bValue.n
                   [] OTHER -> FALSE
  IN IF aValue.t = "undefined" THEN 1
     ELSE IF bValue.t = "undefined" THEN -1
     ELSE IF aValue = bValue THEN 0
     ELSE (IF greater THEN 1 ELSE -1) * (IF direction = "ASC" THEN 1 ELSE -1)

\* Array.prototype.sort is stable: insertion of each row after the rows not above it
RECURSIVE InsertSorted(_, _, _, _)
InsertSorted(sorted, row, columnKey, direction) ==
  IF sorted = << >> THEN <<row>>
  ELSE IF CompareRows(sorted[Len(sorted)], row, columnKey, direction) <= 0
       THEN Append(sorted, row)
       ELSE Append(InsertSorted(SubSeq(sorted, 1, Len(sorted) - 1), row, columnKey, direction),
                   sorted[Len(sorted)])

RECURSIVE SortRows(_, _, _)
SortRows(rows, columnKey, direction) ==
  IF rows = << >> THEN << >>
  ELSE InsertSorted(SortRows(SubSeq(rows, 1, Len(rows) - 1), columnKey, direction),
                    rows[Len(rows)], columnKey, direction)

\* getSortedRows()
GetSortedRows(list, selected, sort) ==
  LET i == CurrentIndex(list, selected)
      rows == IF i = 0 THEN << >> ELSE list[i].rows
  IN IF sort = << >> THEN rows
     ELSE SortRows(rows, sort[1].columnKey, sort[1].direction)

\* columnsWithDelete as the grid gets it: the comments column after the first name
\* column, and every column with key 'delete' filtered out
ColumnsWithDelete(columns) ==
  LET keys == KeysOf(columns)
      nameIdx == FindKeyIndex(keys, S_name)
      withComments == IF nameIdx # -1
                      THEN SubSeq(keys, 1, nameIdx + 1) \o <<S_comments>>
                             \o SubSeq(keys, nameIdx + 2, Len(keys))
                      ELSE keys
  IN SelectSeq(withComments, LAMBDA k : k # S_delete)

\* the header of the column at idx (from 0) of columnsWithDelete has the delete button
HasDeleteButton(columns, idx) ==
  LET shown == ColumnsWithDelete(columns)
      retailerNameIdx == FindKeyIndex(KeysOf(columns), S_name)
      retailPriceIdx == FindKeyIndex(KeysOf(columns), S_retail_price)
      key == shown[idx + 1]
  IN /\ key # S_comments
     /\ retailerNameIdx # -1 /\ retailPriceIdx # -1
     /\ idx > retailerNameIdx /\ idx < retailPriceIdx
     /\ key # S_name /\ key # S_retail_price

\* isProductColumn of onCellClick
IsProductColumnClick(columns, columnKey) ==
  LET shown == ColumnsWithDelete(columns)
      retailerNameIdx == FindKeyIndex(shown, S_name)
      retailPriceIdx == FindKeyIndex(shown, S_retail_price)
      colIdx == FindKeyIndex(shown, columnKey)
  IN colIdx > retailerNameIdx /\ colIdx < retailPriceIdx

\* the grid offers an editor for the column: renderEditCell of editableColumns
HasEditor(col, role) ==
  IF col.key = S_retail_price THEN col.renderEditCell
  ELSE col.renderEditCell \/ (role = "ADMIN" /\ col.key # S_id /\ col.key # S_delete)

\* Math.max(...rows.map(r => typeof r.id === 'number' ? r.id : 0))
RECURSIVE MaxRowId(_)
MaxRowId(rows) ==
  IF rows = << >> THEN 0
  ELSE LET r == Head(rows)
           id == IF S_id \in DOMAIN r /\ r[S_id].t = "num" THEN r[S_id].n ELSE 0
           rest == MaxRowId(Tail(rows))
       IN IF id > rest THEN id ELSE rest

(***************************************************************************)
(* Construction.                                                           *)
(***************************************************************************)
\* retailersColumns, the template of a new scorecard
TemplateColumn(key, name, editable, renderEditCell) ==
  [key |-> key, name |-> name, editable |-> editable, renderEditCell |-> renderEditCell]

RetailersColumns ==
  << TemplateColumn(S_name, S_RetailerName, TRUE, FALSE),
     TemplateColumn(S_retail_price, <<"R", "e", "t", "a", "i", "l", " ", "P", "r", "i", "c", "e">>, TRUE, TRUE),
     TemplateColumn(<<"b", "u", "y", "e", "r">>, <<"B", "u", "y", "e", "r">>, TRUE, TRUE),
     TemplateColumn(<<"s", "t", "o", "r", "e", "_", "c", "o", "u", "n", "t">>, <<"S", "t", "o", "r", "e", " ", "C", "o", "u", "n", "t">>, TRUE, TRUE),
     TemplateColumn(<<"h", "q", "_", "l", "o", "c", "a", "t", "i", "o", "n">>, <<"H", "Q", " ", "L", "o", "c", "a", "t", "i", "o", "n">>, TRUE, TRUE),
     TemplateColumn(<<"c", "m", "g">>, S_CMG, FALSE, FALSE),
     TemplateColumn(<<"b", "r", "a", "n", "d", "_", "l", "e", "a", "d">>, <<"B", "r", "a", "n", "d", " ", "L", "e", "a", "d">>, FALSE, FALSE) >>

Object2(k1, v1, k2, v2) == WithKey(WithKey(EmptyObject, k1, v1), k2, v2)

\* the scorecard createScoreCard builds at time t
NewScoreCard(t, name) ==
  [id |-> S_scorecard_ \o DigitsOf(t), name |-> Trim(name),
   columns |-> RetailersColumns,
   rows |-> << Object2(S_id, Num(1), S_name, Str(<<"I", "t", "e", "m", " ", "1">>)),
               Object2(S_id, Num(2), S_name, Str(<<"I", "t", "e", "m", " ", "2">>)) >>]

\* a scorecard as an administrator's earlier session saved it: created at time 0,
\* selected, and given the product columns 'W' and ' Q  1'
SavedColumn(name) ==
  [key |-> ReplaceSpaceRuns(ToLowerCase(Trim(name))), name |-> name, editable |-> TRUE,
   renderEditCell |-> FALSE]
SavedScoreCard ==
  LET sc == NewScoreCard(0, <<"Z">>)
      keys == {S_w, <<"q", "_", "1">>}
  IN [sc EXCEPT
        !.columns = <<RoleEffectColumns(@, "ADMIN")[1], SavedColumn(<<"W">>),
                      SavedColumn(<<" ", "Q", " ", " ", "1">>)>>
                    \o Tail(RoleEffectColumns(@, "ADMIN")),
        !.rows = [r \in 1..Len(@) |->
                    [k \in (DOMAIN @[r]) \cup keys |->
                       IF k \in keys THEN Str(<< >>) ELSE @[r][k]]]]

\* the comments that session left on the row with id 1
SavedComments ==
  [sc \in {SavedScoreCard.id} |->
     [rowId \in {1} |->
        [i \in 1..3 |->
           [text |-> <<<<"n">>, <<"o">>, <<"p">>>>[i], timestamp |-> DigitsOf(0),
            username |-> S_Anonymous]]]]

\* a scorecard as an earlier session saved it after an import replaced its columns
\* and rows: no 'retail_price' column is left
ImportedScoreCard ==
  LET sheet == ImportSheet(<< <<Str(<<"N", "a", "m", "e">>)>>, <<Str(<<"A", "c">>)>> >>)
  IN [NewScoreCard(0, <<"Y">>) EXCEPT !.columns = sheet.columns, !.rows = sheet.rows]

\* what an earlier session may have left in localStorage
StoredItems ==
  { [scorecards |-> Item("absent", << >>), scorecardComments |-> Item("absent", << >>)],
    [scorecards |-> Item("garbage", << >>), scorecardComments |-> Item("garbage", << >>)],
    [scorecards |-> Item("null", << >>), scorecardComments |-> Item("absent", << >>)],
    [scorecards |-> Item("object", << >>), scorecardComments |-> Item("absent", << >>)],
    [scorecards |-> StringifyScorecards(<<SavedScoreCard>>),
     scorecardComments |-> StringifyComments(SavedComments)],
    [scorecards |-> StringifyScorecards(<<ImportedScoreCard>>),
     scorecardComments |-> Item("absent", << >>)] }

\* the state after construction for a user of the given role
InitAs(role) ==
  /\ phase = "unmounted"
  /\ userRole = role
  /\ storage \in StoredItems
  /\ now = 1
  /\ scorecards = << >>
  /\ comments = << >>
  \* the useState initial values that do not come from localStorage
  /\ selectedCategory = Undefined
  /\ sortColumns = << >>
  /\ showAddColModal = FALSE /\ newColName = << >> /\ colError = << >>
  /\ openRetailerDrawer = Null /\ commentInput = << >>
  /\ editCommentIdx = NoIndex /\ editCommentText = << >>
  /\ editedComment = NoEdited
  /\ statusPicker = NoPicker
  /\ subGrids = InitialSubGrids
  /\ reader = NoReader
  /\ thrown = FALSE
  /\ imported = NoImport
  /\ ops = 0

Init == InitAs("ADMIN")

\* the component is on the page and takes another operation
Ready == phase = "mounted" /\ ops < MaxOps

\* an operation that raises nothing
Quiet == thrown' = FALSE /\ imported' = NoImport /\ ops' = ops + 1

\* setScorecards(next), and the effect on [scorecards] that saves them
SetScorecards(next) ==
  /\ scorecards' = next
  /\ storage' = SaveScoreCardsToStorage(storage, next)

\* the first render and its effects
Mount ==
  /\ phase = "unmounted"
  /\ IF RenderThrows(storage.scorecards)
     THEN /\ phase' = "crashed"
          /\ thrown' = TRUE
          /\ UNCHANGED <<scorecards, storage>>
     ELSE /\ phase' = "mounted"
          /\ thrown' = FALSE
          /\ SetScorecards(LoadScoreCardsFromStorage(storage.scorecards))
  /\ comments' = LoadScorecardComments(storage.scorecardComments)
  /\ imported' = NoImport
  /\ UNCHANGED <<userRole, now, selectedCategory, sortColumns, modalVars, drawerVars,
                 statusPicker, subGrids, reader, ops>>

\* the page is loaded again: every useState starts over, localStorage stays
Reload ==
  /\ phase = "mounted"
  /\ phase' = "unmounted"
  /\ scorecards' = << >> /\ comments' = << >>
  /\ selectedCategory' = Undefined
  /\ sortColumns' = << >>
  /\ showAddColModal' = FALSE /\ newColName' = << >> /\ colError' = << >>
  /\ openRetailerDrawer' = Null /\ commentInput' = << >>
  /\ editCommentIdx' = NoIndex /\ editCommentText' = << >>
  /\ editedComment' = NoEdited
  /\ statusPicker' = NoPicker
  /\ subGrids' = InitialSubGrids
  /\ reader' = NoReader
  /\ thrown' = FALSE /\ imported' = NoImport
  /\ UNCHANGED <<userRole, storage, now, ops>>

\* no overlay (modal, drawer, picker) covers the page
Idle ==
  /\ Ready
  /\ ~showAddColModal
  /\ openRetailerDrawer = Null
  /\ ~statusPicker.open

(***************************************************************************)
(* Scorecards.                                                             *)
(***************************************************************************)
createScoreCard(name) ==
  /\ Idle /\ userRole = "ADMIN"
  /\ now <= MaxClock /\ Len(scorecards) < MaxScorecards
  /\ IF Trim(name) = << >>
     THEN UNCHANGED <<scorecards, storage, now>>
     ELSE /\ SetScorecards(Append(scorecards, NewScoreCard(now, name)))
          /\ now' = now + 1
  /\ Quiet
  /\ UNCHANGED <<phase, userRole, selectedCategory, sortColumns, modalVars, comments,
                 drawerVars, statusPicker, subGrids, reader>>

deleteScoreCard(scorecardId) ==
  /\ Idle /\ userRole = "ADMIN"
  /\ \E i \in 1..Len(scorecards) : scorecards[i].id = scorecardId
  /\ SetScorecards(SelectSeq(scorecards, LAMBDA sc : sc.id # scorecardId))
  /\ selectedCategory' = IF selectedCategory = Str(scorecardId) THEN Undefined
                         ELSE selectedCategory
  /\ Quiet
  /\ UNCHANGED <<phase, userRole, now, sortColumns, modalVars, comments, drawerVars,
                 statusPicker, subGrids, reader>>

\* Save Changes of the edit modal: updateScoreCard(id, { name })
updateScoreCardName(scorecardId, name) ==
  /\ Idle /\ userRole = "ADMIN"
  /\ \E i \in 1..Len(scorecards) : scorecards[i].id = scorecardId
  /\ SetScorecards(UpdateScoreCard(scorecards, scorecardId, OnlyName(name)))
  /\ Quiet
  /\ UNCHANGED <<phase, userRole, now, selectedCategory, sortColumns, modalVars, comments,
                 drawerVars, statusPicker, subGrids, reader>>

handleCategoryChange(category) ==
  /\ Idle
  /\ \E i \in 1..Len(scorecards) : scorecards[i].id = category
  /\ selectedCategory' = Str(category)
  /\ sortColumns' = << >>
  /\ IF Str(category) # selectedCategory /\ CurrentIndex(scorecards, Str(category)) # 0
     THEN SetScorecards(RoleEffect(scorecards, Str(category), userRole))
     ELSE UNCHANGED <<scorecards, storage>>
  /\ Quiet
  /\ UNCHANGED <<phase, userRole, now, modalVars, comments, drawerVars, statusPicker,
                 subGrids, reader>>

\* the scorecard getCurrentData() returns
Current == scorecards[CurrentIndex(scorecards, selectedCategory)]
GridShown == Idle /\ CurrentIndex(scorecards, selectedCategory) # 0

\* the row handleAddRow appends
NewRow(columns, rows) ==
  LET newId == IF Len(rows) > 0 THEN MaxRowId(rows) + 1 ELSE 1
      base  == Object2(S_id, Num(newId), S_name, Str(<< >>))
      keys  == {columns[j].key : j \in 1..Len(columns)} \ {S_id, S_delete}
  IN [k \in (DOMAIN base) \cup keys |-> IF k \in DOMAIN base THEN base[k] ELSE Str(<< >>)]

handleAddRow ==
  /\ GridShown
  /\ Len(Current.rows) < MaxRows
  /\ SetScorecards(UpdateCurrentData(scorecards, selectedCategory,
        OnlyRows(Append(Current.rows, NewRow(Current.columns, Current.rows)))))
  /\ Quiet
  /\ UNCHANGED <<phase, userRole, now, selectedCategory, sortColumns, modalVars, comments,
                 drawerVars, statusPicker, subGrids, reader>>

\* row.id !== rowId
RowIdIsNot(row, rowId) ==
  ~(S_id \in DOMAIN row /\ row[S_id] = Num(rowId))

\* typeof row.id === 'number' ? row.id : 0
NumericIdOr0(row) ==
  IF S_id \in DOMAIN row /\ row[S_id].t = "num" THEN row[S_id].n ELSE 0

handleDeleteRow(rowId) ==
  /\ GridShown
  /\ \E r \in 1..Len(Current.rows) : NumericIdOr0(Current.rows[r]) = rowId
  /\ SetScorecards(UpdateCurrentData(scorecards, selectedCategory,
        OnlyRows(SelectSeq(Current.rows, LAMBDA row : RowIdIsNot(row, rowId)))))
  /\ Quiet
  /\ UNCHANGED <<phase, userRole, now, selectedCategory, sortColumns, modalVars, comments,
                 drawerVars, statusPicker, subGrids, reader>>

(***************************************************************************)
(* Columns.                                                                *)
(***************************************************************************)
S_ColumnNameMustBeUnique ==
  <<"C", "o", "l", "u", "m", "n", " ", "n", "a", "m", "e", " ", "m", "u", "s", "t", " ",
    "b", "e", " ", "u", "n", "i", "q", "u", "e", ".">>

openAddColModal ==
  /\ Idle /\ userRole = "ADMIN"
  /\ newColName' = << >>
  /\ showAddColModal' = TRUE
  /\ Quiet
  /\ UNCHANGED <<phase, userRole, storage, now, scorecards, selectedCategory, sortColumns,
                 colError, comments, drawerVars, statusPicker, subGrids, reader>>

\* onChange of the name input of the modal
setNewColName(name) ==
  /\ Ready /\ showAddColModal
  /\ newColName # name
  /\ newColName' = name
  /\ Quiet
  /\ UNCHANGED <<phase, userRole, storage, now, scorecards, selectedCategory, sortColumns,
                 showAddColModal, colError, comments, drawerVars, statusPicker, subGrids,
                 reader>>

\* Cancel of the modal
cancelAddColModal ==
  /\ Ready /\ showAddColModal
  /\ showAddColModal' = FALSE /\ colError' = << >> /\ newColName' = << >>
  /\ Quiet
  /\ UNCHANGED <<phase, userRole, storage, now, scorecards, selectedCategory, sortColumns,
                 comments, drawerVars, statusPicker, subGrids, reader>>

\* the key handleAddColumnConfirm generates from the name
ColumnKeyOf(name) == ReplaceSpaceRuns(ToLowerCase(Trim(name)))

\* currentData.columns.some(col => col.key === key)
KeyIsTaken(columns, key) == \E j \in 1..Len(columns) : columns[j].key = key

\* the columns with newColumn always put at the end
InsertColumnAtEnd(columns, newColumn) == BlankCommentsName(Append(columns, newColumn))

\* the columns with newColumn inserted before 'retail_price', or at the end
InsertColumn(columns, newColumn) ==
  LET retailPriceIndex == FindKeyIndex(KeysOf(columns), S_retail_price)
      insertIndex == IF retailPriceIndex # -1 THEN retailPriceIndex ELSE Len(columns)
  IN BlankCommentsName(SubSeq(columns, 1, insertIndex) \o <<newColumn>>
                         \o SubSeq(columns, insertIndex + 1, Len(columns)))

handleAddColumnConfirm ==
  /\ Ready /\ showAddColModal
  /\ LET key == ColumnKeyOf(newColName)
         i == CurrentIndex(scorecards, selectedCategory)
     IN IF Trim(newColName) = << >>
        THEN /\ colError' = <<"C", "o", "l", "u", "m", "n", " ", "n", "a", "m", "e", " ",
                              "i", "s", " ", "r", "e", "q", "u", "i", "r", "e", "d", ".">>
             /\ UNCHANGED <<scorecards, storage, showAddColModal, newColName>>
        ELSE IF i = 0
        THEN UNCHANGED <<scorecards, storage, modalVars>>
        ELSE IF KeyIsTaken(scorecards[i].columns, key)
        THEN /\ colError' = S_ColumnNameMustBeUnique
             /\ UNCHANGED <<scorecards, storage, showAddColModal, newColName>>
        ELSE /\ Len(scorecards[i].columns) < MaxColumns
             /\ SetScorecards(UpdateCurrentData(scorecards, selectedCategory,
                  ColumnsAndRows(
                    InsertColumn(scorecards[i].columns,
                                 [key |-> key, name |-> newColName,
                                  editable |-> (userRole = "ADMIN"),
                                  renderEditCell |-> FALSE]),
                    [r \in 1..Len(scorecards[i].rows) |->
                       WithKey(scorecards[i].rows[r], key, Str(<< >>))])))
             /\ showAddColModal' = FALSE /\ newColName' = << >> /\ colError' = << >>
  /\ Quiet
  /\ UNCHANGED <<phase, userRole, now, selectedCategory, sortColumns, comments, drawerVars,
                 statusPicker, subGrids, reader>>

\* the delete button in the header of a product column
handleDeleteColumn(colKey) ==
  /\ GridShown
  /\ \E idx \in 0..(Len(ColumnsWithDelete(Current.columns)) - 1) :
        /\ ColumnsWithDelete(Current.columns)[idx + 1] = colKey
        /\ HasDeleteButton(Current.columns, idx)
  /\ SetScorecards(UpdateCurrentData(scorecards, selectedCategory,
        ColumnsAndRows(
          SelectSeq(Current.columns, LAMBDA col : col.key # colKey),
          [r \in 1..Len(Current.rows) |-> WithoutKey(Current.rows[r], colKey)])))
  /\ Quiet
  /\ UNCHANGED <<phase, userRole, now, selectedCategory, sortColumns, modalVars, comments,
                 drawerVars, statusPicker, subGrids, reader>>

\* handleColumnNameChange(idx, newName), idx counted from 0
handleColumnNameChange(idx, newName) ==
  /\ GridShown
  /\ idx + 1 \in 1..Len(Current.columns)
  /\ SetScorecards(UpdateCurrentData(scorecards, selectedCategory,
        OnlyColumns([j \in 1..Len(Current.columns) |->
                       IF j = idx + 1 THEN [Current.columns[j] EXCEPT !.name = newName]
                       ELSE Current.columns[j]])))
  /\ Quiet
  /\ UNCHANGED <<phase, userRole, now, selectedCategory, sortColumns, modalVars, comments,
                 drawerVars, statusPicker, subGrids, reader>>

(***************************************************************************)
(* The grid: sorting, cell edits, the status picker.                       *)
(***************************************************************************)
\* onSortColumnsChange of the grid
setSortColumns(sort) ==
  /\ GridShown
  /\ sort # sortColumns
  /\ sort # << >> => KeyIsTaken(Current.columns, sort[1].columnKey)
  /\ sortColumns' = sort
  /\ Quiet
  /\ UNCHANGED <<phase, userRole, storage, now, scorecards, selectedCategory, modalVars,
                 comments, drawerVars, statusPicker, subGrids, reader>>

\* a cell editor commits: the grid calls onRowsChange with the rows it shows, the
\* edited row replaced (rowIdx counted from 0)
onRowsChangeCell(rowIdx, columnKey, value) ==
  /\ GridShown
  /\ LET rows == GetSortedRows(scorecards, selectedCategory, sortColumns)
     IN /\ rowIdx + 1 \in 1..Len(rows)
        /\ \E j \in 1..Len(Current.columns) :
              Current.columns[j].key = columnKey /\ HasEditor(Current.columns[j], userRole)
        /\ Prop(rows[rowIdx + 1], columnKey) # value
        /\ SetScorecards(UpdateCurrentData(scorecards, selectedCategory,
              OnlyRows([rows EXCEPT ![rowIdx + 1] = WithKey(@, columnKey, value)])))
  /\ Quiet
  /\ UNCHANGED <<phase, userRole, now, selectedCategory, sortColumns, modalVars, comments,
                 drawerVars, statusPicker, subGrids, reader>>

onCellClick(rowIdx, columnKey) ==
  /\ GridShown
  /\ LET rows == GetSortedRows(scorecards, selectedCategory, sortColumns)
         shown == ColumnsWithDelete(Current.columns)
     IN /\ rowIdx + 1 \in 1..Len(rows)
        /\ columnKey \in Range(shown)
        /\ IsProductColumnClick(Current.columns, columnKey)
        /\ statusPicker' =
             [open |-> TRUE, rowIdx |-> rowIdx, colIdx |-> FindKeyIndex(shown, columnKey),
              value |-> Prop(rows[rowIdx + 1], columnKey),
              columnKey |-> columnKey, row |-> rows[rowIdx + 1]]
  /\ Quiet
  /\ UNCHANGED <<phase, userRole, storage, now, scorecards, selectedCategory, sortColumns,
                 modalVars, comments, drawerVars, subGrids, reader>>

\* onSelect of the StatusPickerCard
statusPickerOnSelect(v) ==
  /\ Ready /\ statusPicker.open
  /\ LET rows == GetSortedRows(scorecards, selectedCategory, sortColumns)
     IN IF statusPicker.rowIdx + 1 \notin 1..Len(rows)
        THEN \* rows[statusPicker.rowIdx] is undefined
             /\ thrown' = TRUE
             /\ UNCHANGED <<scorecards, storage, statusPicker>>
        ELSE /\ thrown' = FALSE
             /\ SetScorecards(UpdateCurrentData(scorecards, selectedCategory,
                  OnlyRows([rows EXCEPT ![statusPicker.rowIdx + 1] =
                                          WithKey(@, statusPicker.columnKey, Str(v))])))
             /\ statusPicker' = NoPicker
  /\ imported' = NoImport /\ ops' = ops + 1
  /\ UNCHANGED <<phase, userRole, now, selectedCategory, sortColumns, modalVars, comments,
                 drawerVars, subGrids, reader>>

\* onClose of the StatusPickerCard: Escape, or a mouse press outside the card
statusPickerOnClose ==
  /\ Ready /\ statusPicker.open
  /\ statusPicker' = NoPicker
  /\ Quiet
  /\ UNCHANGED <<phase, userRole, storage, now, scorecards, selectedCategory, sortColumns,
                 modalVars, comments, drawerVars, subGrids, reader>>

(***************************************************************************)
(* Excel import.                                                           *)
(***************************************************************************)
\* handleImportExcel: the file is handed to a FileReader; onload, created in this
\* render, keeps this render's selectedCategory
handleImportExcel(rows2D) ==
  /\ Idle
  /\ ~reader.busy
  /\ reader' = [busy |-> TRUE, selectedCategory |-> selectedCategory, rows2D |-> rows2D]
  /\ Quiet
  /\ UNCHANGED <<phase, userRole, storage, now, scorecards, selectedCategory, sortColumns,
                 modalVars, comments, drawerVars, statusPicker, subGrids>>

readerOnload ==
  /\ Ready /\ reader.busy
  /\ LET result == ImportSheet(reader.rows2D)
         empty  == Len(reader.rows2D) = 0
         threw  == ~empty /\ (result.threw \/ UpdateCurrentDataThrows(reader.selectedCategory))
     IN /\ thrown' = threw
        /\ imported' = IF empty THEN NoImport
                       ELSE [ran |-> TRUE, rows2D |-> reader.rows2D,
                             selectedCategory |-> reader.selectedCategory,
                             threw |-> threw, isVertical |-> result.isVertical,
                             headerRowIndex |-> result.headerRowIndex,
                             columns |-> result.columns, rows |-> result.rows]
        /\ IF empty \/ threw \/ ~StartsWith(reader.selectedCategory.s, S_scorecard_)
           THEN UNCHANGED <<scorecards, storage>>
           ELSE SetScorecards(UpdateCurrentData(scorecards, reader.selectedCategory,
                                ColumnsAndRows(result.columns, result.rows)))
  /\ reader' = NoReader
  /\ ops' = ops + 1
  /\ UNCHANGED <<phase, userRole, now, selectedCategory, sortColumns, modalVars, comments,
                 drawerVars, statusPicker, subGrids>>

(***************************************************************************)
(* The retailer drawer: the address of a row and its comments.             *)
(***************************************************************************)
\* prev[selectedCategory] || {}
CommentsOfScoreCard(c, sc) == IF sc \in DOMAIN c THEN c[sc] ELSE << >>

\* a list that forgets the comments the row already has
NoEarlierComments(c, sc, rowId) == << >>

\* (prev[selectedCategory] || {})[row.id] || []
CommentsOfRow(c, sc, rowId) ==
  IF rowId \in DOMAIN CommentsOfScoreCard(c, sc) THEN CommentsOfScoreCard(c, sc)[rowId]
  ELSE << >>

\* the drawer is rendered
DrawerOpen ==
  /\ Ready /\ openRetailerDrawer # Null
  /\ selectedCategory.t = "str" /\ StartsWith(selectedCategory.s, S_scorecard_)

\* currentData?.rows.find(r => r.id === openRetailerDrawer) is a row: row.id is a number
DrawerRowFound ==
  /\ CurrentIndex(scorecards, selectedCategory) # 0
  /\ \E r \in 1..Len(Current.rows) : ~RowIdIsNot(Current.rows[r], openRetailerDrawer)

\* the comments the drawer lists
DrawerComments ==
  IF DrawerRowFound THEN CommentsOfRow(comments, selectedCategory.s, openRetailerDrawer)
  ELSE << >>

\* the button of the comments column in the row shown at rowIdx (from 0)
commentButtonOnClick(rowIdx) ==
  /\ GridShown
  /\ S_comments \in Range(ColumnsWithDelete(Current.columns))
  /\ LET rows == GetSortedRows(scorecards, selectedCategory, sortColumns)
     IN /\ rowIdx + 1 \in 1..Len(rows)
        /\ openRetailerDrawer' = IF Prop(rows[rowIdx + 1], S_id).t = "num"
                                 THEN Prop(rows[rowIdx + 1], S_id).n ELSE Null
  /\ Quiet
  /\ UNCHANGED <<phase, userRole, storage, now, scorecards, selectedCategory, sortColumns,
                 modalVars, comments, commentInput, editCommentIdx, editCommentText,
                 editedComment,
                 statusPicker, subGrids, reader>>

\* the backdrop or the close button of the drawer
closeRetailerDrawer ==
  /\ DrawerOpen
  /\ openRetailerDrawer' = Null
  /\ Quiet
  /\ UNCHANGED <<phase, userRole, storage, now, scorecards, selectedCategory, sortColumns,
                 modalVars, comments, commentInput, editCommentIdx, editCommentText,
                 editedComment,
                 statusPicker, subGrids, reader>>

\* onChange of the address input of the drawer
addressOnChange(value) ==
  /\ DrawerOpen
  /\ IF ~DrawerRowFound
     THEN UNCHANGED <<scorecards, storage>>
     ELSE SetScorecards(UpdateCurrentData(scorecards, selectedCategory,
            OnlyRows([r \in 1..Len(Current.rows) |->
                        IF ~RowIdIsNot(Current.rows[r], openRetailerDrawer)
                        THEN WithKey(Current.rows[r], <<"a", "d", "d", "r", "e", "s", "s">>, Str(value))
                        ELSE Current.rows[r]])))
  /\ Quiet
  /\ UNCHANGED <<phase, userRole, now, selectedCategory, sortColumns, modalVars, comments,
                 drawerVars, statusPicker, subGrids, reader>>

\* onChange of the comment textarea
setCommentInput(text) ==
  /\ DrawerOpen
  /\ commentInput # text
  /\ commentInput' = text
  /\ Quiet
  /\ UNCHANGED <<phase, userRole, storage, now, scorecards, selectedCategory, sortColumns,
                 modalVars, comments, openRetailerDrawer, editCommentIdx, editCommentText,
                 editedComment,
                 statusPicker, subGrids, reader>>

\* onClick of add-comment-btn
addCommentBtnOnClick ==
  /\ DrawerOpen
  /\ IF Trim(commentInput) = << >>
     THEN UNCHANGED <<comments, storage, commentInput>>
     ELSE LET sel == selectedCategory.s
              ofSel == CommentsOfScoreCard(comments, sel)
              withRow == IF DrawerRowFound
                         THEN [rowId \in DOMAIN ofSel \cup {openRetailerDrawer} |->
                                 IF rowId = openRetailerDrawer
                                 THEN Append(CommentsOfRow(comments, sel, rowId),
                                             [text |-> Trim(commentInput),
                                              timestamp |-> DigitsOf(now),
                                              username |-> S_Anonymous])
                                 ELSE ofSel[rowId]]
                         ELSE ofSel
              updated == [sc \in DOMAIN comments \cup {sel} |->
                            IF sc = sel THEN withRow ELSE comments[sc]]
          IN /\ comments' = updated
             /\ storage' = SaveScorecardComments(storage, updated)
             /\ commentInput' = << >>
  /\ Quiet
  /\ UNCHANGED <<phase, userRole, now, scorecards, selectedCategory, sortColumns, modalVars,
                 openRetailerDrawer, editCommentIdx, editCommentText, editedComment, statusPicker,
                 subGrids,
                 reader>>

\* Edit of the comment at i (from 0)
commentEditOnClick(i) ==
  /\ DrawerOpen
  /\ i + 1 \in 1..Len(DrawerComments)
  /\ editCommentIdx # i
  /\ editCommentIdx' = i
  /\ editCommentText' = DrawerComments[i + 1].text
  /\ editedComment' = [sc |-> selectedCategory.s, rowId |-> openRetailerDrawer,
                        comment |-> <<DrawerComments[i + 1]>>]
  /\ Quiet
  /\ UNCHANGED <<phase, userRole, storage, now, scorecards, selectedCategory, sortColumns,
                 modalVars, comments, openRetailerDrawer, commentInput, statusPicker,
                 subGrids, reader>>

\* onChange of the textarea of the comment in edit mode
setEditCommentText(text) ==
  /\ DrawerOpen
  /\ editCommentIdx + 1 \in 1..Len(DrawerComments)
  /\ editCommentText # text
  /\ editCommentText' = text
  /\ Quiet
  /\ UNCHANGED <<phase, userRole, storage, now, scorecards, selectedCategory, sortColumns,
                 modalVars, comments, openRetailerDrawer, commentInput, editCommentIdx,
                 editedComment, statusPicker, subGrids, reader>>

\* the comments with the list of one row of one scorecard replaced
WithRowComments(c, sc, rowId, list) ==
  [c EXCEPT ![sc] = [@ EXCEPT ![rowId] = list]]

\* Save of the comment in edit mode
commentSaveOnClick ==
  /\ DrawerOpen
  /\ editCommentIdx + 1 \in 1..Len(DrawerComments)
  /\ LET updated == WithRowComments(comments, selectedCategory.s, openRetailerDrawer,
                      [DrawerComments EXCEPT ![editCommentIdx + 1].text = editCommentText])
     IN /\ comments' = updated
        /\ storage' = SaveScorecardComments(storage, updated)
  /\ editCommentIdx' = NoIndex /\ editCommentText' = << >>
  /\ editedComment' = NoEdited
  /\ Quiet
  /\ UNCHANGED <<phase, userRole, now, scorecards, selectedCategory, sortColumns, modalVars,
                 openRetailerDrawer, commentInput, statusPicker, subGrids, reader>>

\* Cancel of the comment in edit mode
commentCancelOnClick ==
  /\ DrawerOpen
  /\ editCommentIdx + 1 \in 1..Len(DrawerComments)
  /\ editCommentIdx' = NoIndex /\ editCommentText' = << >>
  /\ editedComment' = NoEdited
  /\ Quiet
  /\ UNCHANGED <<phase, userRole, storage, now, scorecards, selectedCategory, sortColumns,
                 modalVars, comments, openRetailerDrawer, commentInput, statusPicker,
                 subGrids, reader>>

\* Delete of the comment at i (from 0)
commentDeleteOnClick(i) ==
  /\ DrawerOpen
  /\ i + 1 \in 1..Len(DrawerComments)
  /\ editCommentIdx # i
  /\ LET updated == WithRowComments(comments, selectedCategory.s, openRetailerDrawer,
                                    \* list.splice(i, 1)
                                    SubSeq(DrawerComments, 1, i)
                                      \o SubSeq(DrawerComments, i + 2, Len(DrawerComments)))
     IN /\ comments' = updated
        /\ storage' = SaveScorecardComments(storage, updated)
  /\ Quiet
  /\ UNCHANGED <<phase, userRole, now, scorecards, selectedCategory, sortColumns, modalVars,
                 drawerVars, statusPicker, subGrids, reader>>

(***************************************************************************)
(* Sub-grids, keyed by the id of their parent row.                         *)
(***************************************************************************)
S_task == <<"t", "a", "s", "k">>

SubGridColumn(key, name) == [key |-> key, name |-> name, editable |-> TRUE]

\* prev[parentId] || { columns: [], rows: [], expanded: true }
SubGridOrEmpty(parentId) ==
  IF parentId \in DOMAIN subGrids THEN subGrids[parentId]
  ELSE [columns |-> << >>, rows |-> << >>, expanded |-> TRUE]

\* { ...prev, [parentId]: grid }
WithSubGrid(parentId, grid) ==
  [p \in DOMAIN subGrids \cup {parentId} |-> IF p = parentId THEN grid ELSE subGrids[p]]

\* a sub-grid handler changes subGrids and nothing else
SubGridStep ==
  /\ Quiet
  /\ UNCHANGED <<phase, userRole, storage, scorecards, selectedCategory, sortColumns,
                 modalVars, comments, drawerVars, statusPicker, reader>>

ensureSubGrid(parentId) ==
  /\ Ready
  /\ subGrids' = IF parentId \in DOMAIN subGrids THEN subGrids
                 ELSE WithSubGrid(parentId,
                        [columns |-> <<SubGridColumn(S_task, <<"T", "a", "s", "k">>)>>, rows |-> << >>,
                         expanded |-> TRUE])
  /\ UNCHANGED now
  /\ SubGridStep

handleToggleSubGrid(parentId) ==
  /\ Ready
  /\ parentId \in DOMAIN subGrids
  /\ subGrids' = [subGrids EXCEPT ![parentId].expanded = ~@]
  /\ UNCHANGED now
  /\ SubGridStep

handleDeleteSubGrid(parentId) ==
  /\ Ready
  /\ subGrids' = [p \in DOMAIN subGrids \ {parentId} |-> subGrids[p]]
  /\ UNCHANGED now
  /\ SubGridStep

handleAddSubGrid(parentId) ==
  /\ Ready
  /\ subGrids' = WithSubGrid(parentId,
                   [columns |-> <<SubGridColumn(S_note, <<"N", "o", "t", "e">>)>>, rows |-> << >>,
                    expanded |-> TRUE])
  /\ UNCHANGED now
  /\ SubGridStep

\* the key is col_<Date.now()>; the clock moves on between two clicks
handleSubGridAddColumn(parentId) ==
  /\ Ready
  /\ now <= MaxClock
  /\ LET grid == SubGridOrEmpty(parentId)
         colKey == <<"c", "o", "l", "_">> \o DigitsOf(now)
     IN /\ Len(grid.columns) < MaxSubGridColumns
        /\ subGrids' = WithSubGrid(parentId,
             [grid EXCEPT
                !.columns = Append(@, SubGridColumn(colKey, <<"N", "e", "w", " ", "C", "o", "l", "u", "m", "n">>)),
                !.rows = [r \in 1..Len(@) |-> WithKey(@[r], colKey, Str(<< >>))]])
  /\ now' = now + 1
  /\ SubGridStep

handleSubGridAddRow(parentId) ==
  /\ Ready
  /\ LET grid == SubGridOrEmpty(parentId)
         newId == IF Len(grid.rows) > 0 THEN MaxRowId(grid.rows) + 1 ELSE 1
         keys == {S_id} \cup {grid.columns[j].key : j \in 1..Len(grid.columns)}
         newRow == [k \in keys |->
                      IF \E j \in 1..Len(grid.columns) : grid.columns[j].key = k
                      THEN Str(<< >>) ELSE Num(newId)]
     IN /\ Len(grid.rows) < MaxSubGridRows
        /\ subGrids' = WithSubGrid(parentId, [grid EXCEPT !.rows = Append(@, newRow)])
  /\ UNCHANGED now
  /\ SubGridStep

handleSubGridDeleteRow(parentId, rowId) ==
  /\ Ready
  /\ parentId \in DOMAIN subGrids
  /\ \E r \in 1..Len(subGrids[parentId].rows) :
        ~RowIdIsNot(subGrids[parentId].rows[r], rowId)
  /\ subGrids' = [subGrids EXCEPT ![parentId].rows =
                    SelectSeq(@, LAMBDA row : RowIdIsNot(row, rowId))]
  /\ UNCHANGED now
  /\ SubGridStep

\* a cell editor of the sub-grid commits: newRows is the rows with one cell replaced
handleSubGridRowsChange(parentId, rowIdx, columnKey, value) ==
  /\ Ready
  /\ parentId \in DOMAIN subGrids
  /\ rowIdx + 1 \in 1..Len(subGrids[parentId].rows)
  /\ \E j \in 1..Len(subGrids[parentId].columns) :
        subGrids[parentId].columns[j].key = columnKey
  /\ Prop(subGrids[parentId].rows[rowIdx + 1], columnKey) # value
  /\ subGrids' = [subGrids EXCEPT ![parentId].rows[rowIdx + 1] = WithKey(@, columnKey, value)]
  /\ UNCHANGED now
  /\ SubGridStep

handleSubGridColumnNameChange(parentId, idx, newName) ==
  /\ Ready
  /\ parentId \in DOMAIN subGrids
  /\ idx + 1 \in 1..Len(subGrids[parentId].columns)
  /\ subGrids[parentId].columns[idx + 1].name # newName
  /\ subGrids' = [subGrids EXCEPT ![parentId].columns[idx + 1].name = newName]
  /\ UNCHANGED now
  /\ SubGridStep

handleSubGridDeleteColumn(parentId, colKey) ==
  /\ Ready
  /\ parentId \in DOMAIN subGrids
  /\ \E j \in 1..Len(subGrids[parentId].columns) : subGrids[parentId].columns[j].key = colKey
  /\ subGrids' = [subGrids EXCEPT
                    ![parentId].columns = SelectSeq(@, LAMBDA col : col.key # colKey),
                    ![parentId].rows = [r \in 1..Len(@) |-> WithoutKey(@[r], colKey)]]
  /\ UNCHANGED now
  /\ SubGridStep

(***************************************************************************)
(* The inputs of the operations, and the specification of the scorecards.  *)
(***************************************************************************)
SheetInputs ==
  { << <<Str(<<"N", "a", "m", "e">>), Str(<<"Q", "1">>)>>,
       <<Str(<<"A", "c">>), Str(S_Authorized)>> >>,
    << <<Str(<<"N", "a", "m", "e">>)>>,
       <<Str(<<"A", "c">>)>> >> }

(***************************************************************************)
(* Families of sheets for the import alone.                                *)
(***************************************************************************)
TallRows == 4
SmallRows == 3
LongRows == 11

\* what sheet_to_json puts for an empty cell: defval
EmptyCell == Str(<< >>)
Letter(c) == Str(<<c>>)

\* sheets of two or three columns whose first column holds the field names
TallSheets ==
  { [i \in 1..TallRows |-> <<first[i], Letter("x")>>] :
      first \in [1..TallRows -> {Letter("a"), Letter("b"), Letter("c"), Num(7), Num(0), EmptyCell}] }
  \cup
  { [i \in 1..TallRows |-> <<first[i], Letter("x"), IF i = 2 THEN third ELSE EmptyCell>>] :
      first \in [1..TallRows -> {Letter("a"), Letter("b"), Letter("c"), Num(7), Num(0), EmptyCell}], third \in {EmptyCell, Letter(" "), Letter("y"), Num(0)} }

\* sheets of two columns: blank cells, headers that differ by case and spaces only,
\* a number
SmallSheets ==
  [1..SmallRows ->
     { <<c1, c2>> : c1 \in {EmptyCell, Letter("a"), Str(<<" ", "A">>)},
                    c2 \in {EmptyCell, Letter("a"), Str(<<" ", "A">>)} }
     \cup { <<Num(7), Letter("a")>>, <<Letter("a"), Letter("b")>> }]

\* sheets longer than the header scan: one row with two values, one blank row
LongSheets ==
  { [i \in 1..LongRows |->
       IF i = k THEN <<Letter("a"), Letter("b")>>
       ELSE IF i = j THEN <<EmptyCell, EmptyCell>>
       ELSE <<Letter("a"), EmptyCell>>] : k \in 1..LongRows, j \in 1..LongRows }

SheetFamilies == TallSheets \cup SmallSheets \cup LongSheets


ProductKeyInputs == {ColumnKeyOf(n) : n \in ColumnNameInputs} \cup {S_w}

CommentInputs == {<<" ">>, <<"h", "i", " ">>}
EditCommentInputs == {<<"e">>}
CommentIndexes == {0, 1}
ParentIds == {1, 2}

ScorecardIds == {scorecards[i].id : i \in 1..Len(scorecards)}

Next ==
  \/ Mount
  \/ Reload
  \/ \E name \in ScoreCardNameInputs : createScoreCard(name)
  \/ \E id \in ScorecardIds : deleteScoreCard(id)
  \/ \E id \in ScorecardIds, name \in ScoreCardNameInputs : updateScoreCardName(id, name)
  \/ \E id \in ScorecardIds : handleCategoryChange(id)
  \/ handleAddRow
  \/ \E rowId \in 0..(MaxRows + 1) : handleDeleteRow(rowId)
  \/ openAddColModal
  \/ \E name \in ColumnNameInputs : setNewColName(name)
  \/ cancelAddColModal
  \/ handleAddColumnConfirm
  \/ \E colKey \in ProductKeyInputs : handleDeleteColumn(colKey)
  \/ \E idx \in {0}, name \in {S_CMG} : handleColumnNameChange(idx, name)
  \/ \E sort \in { << >>, <<[columnKey |-> S_name, direction |-> "ASC"]>>,
                   <<[columnKey |-> S_name, direction |-> "DESC"]>> } :
        setSortColumns(sort)
  \/ \E rowIdx \in 0..(MaxRows - 1), key \in {S_name}, value \in {Str(<<"x">>)} :
        onRowsChangeCell(rowIdx, key, value)
  \/ \E rowIdx \in 0..(MaxRows - 1), columnKey \in ProductKeyInputs \cup {S_comments} :
        onCellClick(rowIdx, columnKey)
  \/ \E v \in {S_Authorized, <<"O", "n", " ", "H", "o", "l", "d">>} : statusPickerOnSelect(v)
  \/ statusPickerOnClose
  \/ \E rows2D \in SheetInputs : handleImportExcel(rows2D)
  \/ readerOnload
  \/ \E rowIdx \in 0..(MaxRows - 1) : commentButtonOnClick(rowIdx)
  \/ closeRetailerDrawer
  \/ \E value \in {<<"M">>} : addressOnChange(value)
  \/ \E text \in CommentInputs : setCommentInput(text)
  \/ addCommentBtnOnClick
  \/ \E i \in CommentIndexes : commentEditOnClick(i)
  \/ \E text \in EditCommentInputs : setEditCommentText(text)
  \/ commentSaveOnClick
  \/ commentCancelOnClick
  \/ \E i \in CommentIndexes : commentDeleteOnClick(i)

Spec == Init /\ [][Next]_vars

\* the import alone: the scorecard of an earlier session is selected, then one file
\* is chosen and read

NextImport ==
  \/ Mount
  \/ ops = 0 /\ \E id \in ScorecardIds : handleCategoryChange(id)
  \/ ops = 1 /\ \E rows2D \in SheetFamilies : handleImportExcel(rows2D)
  \/ readerOnload

InitImport == Init /\ storage.scorecards.item = "array"

SpecImport == InitImport /\ [][NextImport]_vars

\* adding columns alone
NextColumns ==
  \/ Mount
  \/ \E name \in ScoreCardNameInputs : createScoreCard(name)
  \/ \E id \in ScorecardIds : handleCategoryChange(id)
  \/ openAddColModal
  \/ \E name \in ColumnNameInputs : setNewColName(name)
  \/ cancelAddColModal
  \/ handleAddColumnConfirm

SpecColumns == Init /\ [][NextColumns]_vars

\* the sub-grid handlers, on a page that is loaded and loaded again and whose
\* scorecards are created and selected
NextSubGrid ==
  \/ Mount
  \/ Reload
  \/ \E name \in ScoreCardNameInputs : createScoreCard(name)
  \/ \E id \in ScorecardIds : handleCategoryChange(id)
  \/ \E parentId \in ParentIds : ensureSubGrid(parentId)
  \/ \E parentId \in ParentIds : handleToggleSubGrid(parentId)
  \/ \E parentId \in ParentIds : handleDeleteSubGrid(parentId)
  \/ \E parentId \in ParentIds : handleAddSubGrid(parentId)
  \/ \E parentId \in ParentIds : handleSubGridAddColumn(parentId)
  \/ \E parentId \in ParentIds : handleSubGridAddRow(parentId)
  \/ \E parentId \in ParentIds, rowId \in 1..MaxSubGridRows :
        handleSubGridDeleteRow(parentId, rowId)
  \/ \E parentId \in ParentIds, key \in {S_note, S_task}, value \in {Str(<<"x">>)} :
        handleSubGridRowsChange(parentId, 0, key, value)
  \/ \E parentId \in ParentIds, name \in {S_CMG} :
        handleSubGridColumnNameChange(parentId, 0, name)
  \/ \E parentId \in ParentIds, colKey \in {S_note, S_task} :
        handleSubGridDeleteColumn(parentId, colKey)

SpecSubGrid == Init /\ [][NextSubGrid]_vars

\* a user who is not an administrator opens the page an administrator's session left
InitViewer == InitAs("VIEWER") /\ storage.scorecards.item = "array"

NextViewer ==
  \/ Mount
  \/ \E id \in ScorecardIds : handleCategoryChange(id)
  \/ handleAddRow
  \/ \E rowIdx \in 0..(MaxRows - 1), key \in {S_name}, value \in {Str(<<"x">>)} :
        onRowsChangeCell(rowIdx, key, value)
  \/ \E rowIdx \in 0..(MaxRows - 1), columnKey \in ProductKeyInputs \cup {S_comments} :
        onCellClick(rowIdx, columnKey)
  \/ \E v \in {S_Authorized} : statusPickerOnSelect(v)
  \/ \E rows2D \in SheetInputs : handleImportExcel(rows2D)
  \/ readerOnload
  \/ \E rowIdx \in 0..(MaxRows - 1) : commentButtonOnClick(rowIdx)
  \/ \E value \in {<<"M">>} : addressOnChange(value)

SpecViewer == InitViewer /\ [][NextViewer]_vars

(***************************************************************************)
(* The properties.                                                         *)
(***************************************************************************)
\* C1: all state is persisted: the scorecards, the comments and the sub-grids in
\* memory are what loading the page again from localStorage restores
AllStatePersisted ==
  phase = "mounted" =>
    /\ StringifyScorecards(LoadScoreCardsFromStorage(storage.scorecards))
         = StringifyScorecards(scorecards)
    /\ LoadScorecardComments(storage.scorecardComments) = comments
    /\ subGrids = InitialSubGrids

\* ids and names of the scorecards, keys and names of their columns, their rows
CoreOf(list) ==
  [i \in 1..Len(list) |->
     [id |-> list[i].id, name |-> list[i].name,
      columns |-> [j \in 1..Len(list[i].columns) |->
                     <<list[i].columns[j].key, list[i].columns[j].name>>],
      rows |-> list[i].rows]]

\* C2: once the save effect has run, the item 'scorecards' is the JSON of the
\* scorecards in memory: parsed again it has the same ids, names, columns and rows
ScorecardsSaved ==
  phase = "mounted" =>
    /\ storage.scorecards = StringifyScorecards(scorecards)
    /\ CoreOf(LoadScoreCardsFromStorage(storage.scorecards)) = CoreOf(scorecards)

\* an import into the selected scorecard has replaced its columns, and is saved
ScorecardsSavedAfterImport ==
  /\ phase = "mounted" /\ imported.ran /\ ~thrown
  /\ Len(scorecards) = 1
  /\ KeysOf(scorecards[1].columns) = <<S_name, <<"q", "1">> >>
  /\ storage.scorecards = StringifyScorecards(scorecards)

\* C3: immediately after a comment is added, saved after an edit or deleted, the
\* item 'scorecardComments' is the JSON of the comments in memory
CommentsWrittenThrough ==
  [][(\/ addCommentBtnOnClick /\ Trim(commentInput) # << >>
      \/ commentSaveOnClick
      \/ \E i \in CommentIndexes : commentDeleteOnClick(i))
     => storage'.scorecardComments = StringifyComments(comments')]_vars

\* a comment whose edited text was saved is in memory and in the item
EditedCommentSaved ==
  /\ \E sc \in DOMAIN comments : \E rowId \in DOMAIN comments[sc] :
        \E i \in 1..Len(comments[sc][rowId]) :
           comments[sc][rowId][i].text \in EditCommentInputs
  /\ storage.scorecardComments = StringifyComments(comments)

\* C4: the file-read callback on a non-empty sheet with no scorecard selected raises
\* nothing and leaves the scorecards unchanged
ImportWithNothingSelected ==
  [][(readerOnload /\ reader.selectedCategory = Undefined /\ Len(reader.rows2D) > 0)
     => (~thrown' /\ scorecards' = scorecards)]_vars

\* C5: the import callback raises nothing on a sheet of empty cells, strings and
\* numbers, a scorecard being selected
ImportNeverRaises ==
  (imported.ran /\ imported.selectedCategory.t = "str") => ~thrown

\* C6: loading raises nothing: the component renders, the scorecards start empty
\* unless the item is a JSON array, the comments start empty when the item is absent
\* or is not JSON
LoadNeverRaises ==
  [][Mount =>
       /\ phase' = "mounted" /\ ~thrown'
       /\ storage.scorecards.item # "array" => scorecards' = << >>
       /\ storage.scorecardComments.item \in {"absent", "garbage"} => comments' = << >>]_vars

\* a cell is empty: nothing, or a text of white space only
CellIsEmpty(cell) ==
  cell.t = "undefined" \/ (cell.t = "str" /\ Trim(cell.s) = << >>)

\* a cell is empty, or holds the number 0
CellIsEmptyOrZero(cell) == CellIsEmpty(cell) \/ cell = Num(0)

\* the number of distinct non-empty values of a row
DistinctNonEmpty(row, IsEmpty(_)) ==
  Cardinality({row[j] : j \in {j \in 1..Len(row) : ~IsEmpty(row[j])}})

\* the first min(10, number of rows) rows, counted from 1
ScannedRows(rows2D) == 1..(IF Len(rows2D) < 10 THEN Len(rows2D) ELSE 10)

\* the earliest of the scanned rows with the most distinct non-empty values
EarliestBestRow(rows2D) ==
  CHOOSE h \in ScannedRows(rows2D) :
    /\ \A g \in ScannedRows(rows2D) :
          DistinctNonEmpty(rows2D[g], CellIsEmptyOrZero) <= DistinctNonEmpty(rows2D[h], CellIsEmptyOrZero)
    /\ \A g \in 1..(h - 1) :
          DistinctNonEmpty(rows2D[g], CellIsEmptyOrZero) < DistinctNonEmpty(rows2D[h], CellIsEmptyOrZero)

\* the rows after row h with at least one non-empty cell
RowsWithContentAfter(rows2D, h) ==
  {i \in (h + 1)..Len(rows2D) : \E j \in 1..Len(rows2D[i]) : ~CellIsEmptyOrZero(rows2D[i][j])}

\* C7: in the horizontal format the header row is the earliest row, among the first
\* min(10, n), with the most distinct non-empty values, and the imported rows are
\* exactly the rows after it that have a non-empty cell, in sheet order (a cell that
\* holds the number 0 counting as empty, as the import counts it)
HeaderAndRowsAsStated ==
  (imported.ran /\ ~imported.isVertical /\ ~imported.threw) =>
    /\ imported.headerRowIndex + 1 = EarliestBestRow(imported.rows2D)
    /\ [k \in 1..Len(imported.rows) |-> imported.rows[k][S_rowIndex].n]
         = [k \in 1..Cardinality(RowsWithContentAfter(imported.rows2D,
                                                      imported.headerRowIndex + 1)) |->
              k - 1]

\* the first column has more than 3 distinct non-empty values and the third and
\* later columns are empty
StatedVertical(rows2D, IsEmpty(_)) ==
  /\ DistinctNonEmpty([i \in 1..Len(rows2D) |-> At(rows2D[i], 0)], IsEmpty) > 3
  /\ \A i \in 1..Len(rows2D) : \A j \in 3..Len(rows2D[i]) : IsEmpty(rows2D[i][j])

SheetColumnsMatch(rows2D, columns) ==
  /\ ~ImportSheet(rows2D).threw
  /\ KeysOf(ImportSheet(rows2D).columns) = KeysOf(columns)

\* C9: an import whose sheet columns are not exactly the columns of the selected
\* scorecard leaves the scorecards unchanged
ImportNeedsMatchingColumns ==
  [][(/\ readerOnload /\ Len(reader.rows2D) > 0
      /\ CurrentIndex(scorecards, reader.selectedCategory) # 0
      /\ ~SheetColumnsMatch(reader.rows2D,
            scorecards[CurrentIndex(scorecards, reader.selectedCategory)].columns))
     => scorecards' = scorecards]_vars

\* no two columns of a scorecard have the same display name
DisplayNamesUnique ==
  \A i \in 1..Len(scorecards) :
    \A j, k \in 1..Len(scorecards[i].columns) :
      j # k => scorecards[i].columns[j].name # scorecards[i].columns[k].name

\* C10: handleAddColumnConfirm rejects, with 'Column name must be unique.' and the
\* scorecards unchanged, a name that is the display name of a column of the selected
\* scorecard; so no two columns of a scorecard have the same display name
ColumnNameMustBeUnique ==
  [][handleAddColumnConfirm =>
       /\ (/\ CurrentIndex(scorecards, selectedCategory) # 0
           /\ \E j \in 1..Len(Current.columns) : Current.columns[j].name = newColName)
          => (colError' = S_ColumnNameMustBeUnique /\ scorecards' = scorecards)
       /\ DisplayNamesUnique']_vars


\* the sub-grid the page shows, or would show, under a row: subGrids[row.id]
ShownUnder(grids, row) ==
  IF Prop(row, S_id).t = "num" /\ Prop(row, S_id).n \in DOMAIN grids
  THEN <<grids[Prop(row, S_id).n]>> ELSE << >>

\* one of the sub-grid handlers is called for the parent row with id parentId
SubGridOperation(parentId) ==
  \/ ensureSubGrid(parentId)
  \/ handleAddSubGrid(parentId)
  \/ handleToggleSubGrid(parentId)
  \/ handleDeleteSubGrid(parentId)
  \/ handleSubGridAddColumn(parentId)
  \/ handleSubGridAddRow(parentId)

\* C11: a sub-grid belongs to one parent row: creating, editing, toggling or
\* deleting the sub-grid of a row of the selected scorecard leaves the sub-grid
\* under every other row, the rows of the other scorecards included, as it was
SubGridOfOneParentRow ==
  [][\A parentId \in ParentIds :
       (/\ SubGridOperation(parentId)
        /\ GridShown
        /\ \E r \in 1..Len(Current.rows) : Prop(Current.rows[r], S_id) = Num(parentId))
       => \A i \in 1..Len(scorecards) : \A r \in 1..Len(scorecards[i].rows) :
            (scorecards[i].id # Current.id
               \/ Prop(scorecards[i].rows[r], S_id) # Num(parentId))
            => ShownUnder(subGrids', scorecards[i].rows[r])
                 = ShownUnder(subGrids, scorecards[i].rows[r])]_vars

\* a sub-grid was created while two scorecards hold a row with the same id
SubGridUnderSharedRowId ==
  /\ Len(scorecards) = 2
  /\ subGrids # InitialSubGrids
  /\ \E r \in 1..Len(scorecards[1].rows), q \in 1..Len(scorecards[2].rows) :
        /\ Prop(scorecards[1].rows[r], S_id) = Prop(scorecards[2].rows[q], S_id)
        /\ ShownUnder(subGrids, scorecards[1].rows[r]) # << >>

\* the comment list kept for one (scorecard, row) pair, empty when there is none
CommentListOf(c, sc, rowId) ==
  IF sc \in DOMAIN c THEN (IF rowId \in DOMAIN c[sc] THEN c[sc][rowId] ELSE << >>)
  ELSE << >>

\* the (scorecard, row) pairs that have a list in c
CommentPairs(c) == {<<sc, rowId>> : sc \in DOMAIN c, rowId \in 0..(MaxRows + 2)}

\* C12: comments are keyed by scorecard and row: an add with non-blank text while
\* row R of scorecard S is open appends one comment with the trimmed text to the
\* list of (S, R), leaves every other list and every scorecard unchanged and clears
\* the input; an add with blank text changes nothing
AddCommentAppendsOne ==
  [][(addCommentBtnOnClick /\ DrawerRowFound)
     => IF Trim(commentInput) = << >>
        THEN UNCHANGED <<comments, scorecards, storage, commentInput>>
        ELSE LET S == selectedCategory.s
                 R == openRetailerDrawer
                 old == CommentListOf(comments, S, R)
                 new == CommentListOf(comments', S, R)
             IN /\ Len(new) = Len(old) + 1
                /\ SubSeq(new, 1, Len(old)) = old
                /\ new[Len(new)].text = Trim(commentInput)
                /\ \A pair \in CommentPairs(comments) \cup CommentPairs(comments') :
                     pair # <<S, R>>
                     => CommentListOf(comments', pair[1], pair[2])
                          = CommentListOf(comments, pair[1], pair[2])
                /\ scorecards' = scorecards
                /\ commentInput' = << >>]_vars

\* the comment 'hi' was added after the comments an earlier session left on the row
CommentAddedAfterEarlierOne ==
  /\ commentInput = << >>
  /\ \E sc \in DOMAIN comments : \E rowId \in DOMAIN comments[sc] :
       /\ Len(comments[sc][rowId]) = 4
       /\ comments[sc][rowId][1].text = <<"n">>
       /\ comments[sc][rowId][4].text = <<"h", "i">>

\* the rows and the columns of every scorecard
RowsAndColumns(list) ==
  [i \in 1..Len(list) |-> [id |-> list[i].id, rows |-> list[i].rows, columns |-> list[i].columns]]

\* C13: editing is restricted to administrators: while userRole is not 'ADMIN', a
\* cell edit, a status selection, an added column, an added row, an Excel import
\* or an address edit in the drawer changes no row and no column of any scorecard
OnlyAdministratorsEdit ==
  [][(/\ userRole # "ADMIN"
      /\ \/ handleAddRow
         \/ \E rowIdx \in 0..(MaxRows - 1), value \in {Str(<<"x">>)} :
              onRowsChangeCell(rowIdx, S_name, value)
         \/ \E v \in {S_Authorized} : statusPickerOnSelect(v)
         \/ handleAddColumnConfirm
         \/ readerOnload
         \/ \E value \in {<<"M">>} : addressOnChange(value))
     => RowsAndColumns(scorecards') = RowsAndColumns(scorecards)]_vars

\* a user who is not an administrator has a picked status in a cell
ViewerPickedStatus ==
  /\ userRole # "ADMIN"
  /\ ~statusPicker.open
  /\ \E i \in 1..Len(scorecards) : \E r \in 1..Len(scorecards[i].rows) :
       \E k \in DOMAIN scorecards[i].rows[r] : scorecards[i].rows[r][k] = Str(S_Authorized)

\* a sequence with the element at position pos left out
Without(seq, pos) == SubSeq(seq, 1, pos - 1) \o SubSeq(seq, pos + 1, Len(seq))

\* C14: a successful handleAddColumnConfirm inserts exactly one column, whose key is
\* the entered name trimmed, lower-cased and with each whitespace run replaced by
\* '_', immediately before 'retail_price' when there is one and at the end
\* otherwise; the existing columns keep their order, every row gets '' under the
\* key and keeps its other values, and the modal closes with name and error cleared
AddColumnInsertsOne ==
  [][(/\ handleAddColumnConfirm
      /\ Trim(newColName) # << >>
      /\ CurrentIndex(scorecards, selectedCategory) # 0
      /\ ~KeyIsTaken(Current.columns, ColumnKeyOf(newColName)))
     => LET i == CurrentIndex(scorecards, selectedCategory)
            key == ColumnKeyOf(newColName)
            old == KeysOf(scorecards[i].columns)
            new == KeysOf(scorecards'[i].columns)
            oldRows == scorecards[i].rows
            newRows == scorecards'[i].rows
        IN /\ Len(new) = Len(old) + 1
           /\ \E pos \in 1..Len(new) :
                /\ new[pos] = key
                /\ Without(new, pos) = old
                /\ IF \E j \in 1..Len(old) : old[j] = S_retail_price
                   THEN /\ pos < Len(new) /\ new[pos + 1] = S_retail_price
                        /\ \A j \in 1..(pos - 1) : new[j] # S_retail_price
                   ELSE pos = Len(new)
           /\ Len(newRows) = Len(oldRows)
           /\ \A r \in 1..Len(oldRows) :
                /\ DOMAIN newRows[r] = DOMAIN oldRows[r] \cup {key}
                /\ newRows[r][key] = Str(<< >>)
                /\ \A k \in DOMAIN oldRows[r] \ {key} : newRows[r][k] = oldRows[r][k]
           /\ \A j \in 1..Len(scorecards) :
                j # i => scorecards'[j] = scorecards[j]
           /\ showAddColModal' = FALSE /\ newColName' = << >> /\ colError' = << >>]_vars

\* the column ' Q  1' was added at the end of a scorecard without 'retail_price'
ColumnAddedAtEnd ==
  /\ ~showAddColModal /\ newColName = << >>
  /\ \E i \in 1..Len(scorecards) :
       LET columns == scorecards[i].columns
       IN /\ ~KeyIsTaken(columns, S_retail_price)
          /\ Len(columns) > 1
          /\ columns[Len(columns)].key = <<"q", "_", "1">>
          /\ columns[Len(columns)].name = <<" ", "Q", " ", " ", "1">>
          /\ \A r \in 1..Len(scorecards[i].rows) :
               Prop(scorecards[i].rows[r], <<"q", "_", "1">>) = Str(<< >>)

\* the column with the key lies strictly between 'name' and 'retail_price' in the
\* column order of the scorecard
StrictlyBetweenNameAndPrice(columns, key) ==
  LET keys == KeysOf(columns)
  IN /\ FindKeyIndex(keys, S_name) # -1 /\ FindKeyIndex(keys, S_retail_price) # -1
     /\ FindKeyIndex(keys, key) > FindKeyIndex(keys, S_name)
     /\ FindKeyIndex(keys, key) < FindKeyIndex(keys, S_retail_price)

\* C15: delete buttons are shown for product columns only: in the rendered grid the
\* header of a column of the scorecard has the delete button if and only if the
\* column lies strictly between 'name' and 'retail_price', the column immediately
\* before 'retail_price' included
DeleteButtonOnProductColumns ==
  (phase = "mounted" /\ CurrentIndex(scorecards, selectedCategory) # 0)
  => LET shown == ColumnsWithDelete(Current.columns)
     IN \A idx \in 0..(Len(shown) - 1) :
          shown[idx + 1] # S_comments
          => (HasDeleteButton(Current.columns, idx)
                <=> StrictlyBetweenNameAndPrice(Current.columns, shown[idx + 1]))

\* C16: the status picker opens only for product status columns: a click on a cell
\* sets statusPicker only if the column lies strictly between 'name' and
\* 'retail_price' in the scorecard's columns; never for 'name', 'comments',
\* 'retail_price' or a later column
StatusPickerOnlyForProductColumns ==
  [][\A rowIdx \in 0..(MaxRows - 1) :
       \A columnKey \in ProductKeyInputs \cup {S_comments} :
         onCellClick(rowIdx, columnKey)
         => StrictlyBetweenNameAndPrice(Current.columns, columnKey)]_vars

\* the status picker is open on a cell of the comments column
StatusPickerOnCommentsColumn ==
  statusPicker.open /\ statusPicker.columnKey = S_comments

\* C17: selecting a status sets exactly one cell, the clicked row's value in the
\* clicked column, and closes the picker; every other cell and the stored order of
\* the rows are unchanged, also when a sort column is active
StatusSelectionSetsOneCell ==
  [][\A v \in {S_Authorized, <<"O", "n", " ", "H", "o", "l", "d">>} :
       (/\ statusPickerOnSelect(v)
        /\ CurrentIndex(scorecards, selectedCategory) # 0
        /\ statusPicker.rowIdx + 1
             \in 1..Len(GetSortedRows(scorecards, selectedCategory, sortColumns)))
       => LET clicked == GetSortedRows(scorecards, selectedCategory,
                                       sortColumns)[statusPicker.rowIdx + 1]
              i == CurrentIndex(scorecards, selectedCategory)
              old == scorecards[i].rows
              new == scorecards'[i].rows
          IN /\ Len(new) = Len(old)
             /\ \A p \in 1..Len(old) :
                  new[p] = IF old[p] = clicked
                           THEN WithKey(old[p], statusPicker.columnKey, Str(v))
                           ELSE old[p]
             /\ ~statusPicker'.open]_vars

\* C18: the status picker stays bound to the row that was clicked: when the rows of
\* the selected scorecard were replaced, removed or reordered while the picker was
\* open, a selection writes to the row that was clicked or to no row, never to
\* another row, and raises nothing
StatusPickerStaysBound ==
  [][\A v \in {S_Authorized, <<"O", "n", " ", "H", "o", "l", "d">>} :
       statusPickerOnSelect(v)
       => /\ ~thrown'
          /\ \/ RowsAndColumns(scorecards') = RowsAndColumns(scorecards)
             \/ /\ statusPicker.rowIdx + 1
                     \in 1..Len(GetSortedRows(scorecards, selectedCategory, sortColumns))
                /\ GetSortedRows(scorecards, selectedCategory,
                                 sortColumns)[statusPicker.rowIdx + 1] = statusPicker.row]_vars

\* an import replaced the rows while the status picker was open
RowsReplacedUnderOpenPicker ==
  /\ statusPicker.open
  /\ imported.ran /\ ~imported.threw
  /\ \A r \in 1..Len(GetSortedRows(scorecards, selectedCategory, sortColumns)) :
       GetSortedRows(scorecards, selectedCategory, sortColumns)[r] # statusPicker.row

\* C19: saving an edited comment changes the text of exactly the comment on which
\* Edit was clicked and of no other comment, whatever happened between Edit and
\* Save: another comment of the row deleted, the drawer closed and opened on
\* another row
SaveChangesEditedComment ==
  [][commentSaveOnClick
     => LET S == selectedCategory.s
            R == openRetailerDrawer
            idx == editCommentIdx + 1
        IN /\ editedComment.sc = S /\ editedComment.rowId = R
           /\ editedComment.comment = <<DrawerComments[idx]>>
           /\ \A pair \in CommentPairs(comments) \cup CommentPairs(comments') :
                LET old == CommentListOf(comments, pair[1], pair[2])
                    new == CommentListOf(comments', pair[1], pair[2])
                IN /\ Len(new) = Len(old)
                   /\ \A i \in 1..Len(old) :
                        (pair # <<S, R>> \/ i # idx) => new[i] = old[i]]_vars

\* a comment is in edit mode after a comment above it was deleted
EditModeAfterDeleteAbove ==
  /\ DrawerOpen /\ DrawerRowFound
  /\ editCommentIdx + 1 \in 1..Len(DrawerComments)
  /\ editedComment.comment # << >>
  /\ editedComment.comment # <<DrawerComments[editCommentIdx + 1]>>

====
